---- MODULE Spec2Model ----
(***************************************************************************)
(* Model of circular_plate_cone.py: a straight-line script that resolves   *)
(* six command-line parameters, builds one solid with a geometry kernel    *)
(* (plate, cylinder, optional hole, engraved text), optionally displays    *)
(* it, optionally exports it to STL and STEP, and prints a summary.        *)
(*                                                                         *)
(* Lengths are integers in units of 1/80 mm (80 = 1 mm, 20 = 0.25 mm).     *)
(* Parameters are multiples of 0.25 mm, which binary floats hold exactly,  *)
(* so halving, the midpoint and the .1f rounding (ties to even) are exact. *)
(* The products with the literals 0.6 and 0.8 are taken as exact.          *)
(*                                                                         *)
(* The geometry kernel is an external library: any of its calls may       *)
(* raise. The script hands it the sizes unchecked; what it makes of a      *)
(* sketch of non-positive size or of an extrusion by 0, when it does not   *)
(* raise, is not in the source: part holds the volume of the other         *)
(* operations, and is the kernel's solid only in a run without such an     *)
(* operation (Determined).                                                 *)
(*                                                                         *)
(* A float carries a sign bit, which the format on line 96 prints, also    *)
(* for -0.0: the plate diameter is an integer and its sign bit.            *)
(*                                                                         *)
(* The solid is represented by its cross-section in the plane x = 0        *)
(* (coordinates y, z), sampled on the unit cells that touch a breakpoint   *)
(* of the construction (a radius, a text edge, a height): every            *)
(* elementary rectangle between breakpoints contains such a cell.          *)
(* Text is represented by a box of height font_size centred on             *)
(* text_offset_y.                                                          *)
(***************************************************************************)
EXTENDS Integers, Sequences, FiniteSets, TLC

VARIABLES args, SHOW_AVAILABLE, stdout_encodes, pc, part, ops, text_str, out,
          attempts, files, hole_line_solid, exit_status, traceback

vars == <<args, SHOW_AVAILABLE, stdout_encodes, pc, part, ops, text_str, out,
          attempts, files, hole_line_solid, exit_status, traceback>>

(* What the run is given and never changes: the parsed arguments, whether  *)
(* ocp_vscode could be imported, and whether stdout's encoding has the     *)
(* check mark U+2713 the script prints.                                    *)
env == <<args, SHOW_AVAILABLE, stdout_encodes>>

(* ----------------------------- bounds ---------------------------------- *)
PlateSpan == 3
CylSpan == 3
ThickSpan == 4

(* ------------------------ program constants ---------------------------- *)
(* One millimetre and a quarter of it, in model units. *)
Mm == 8 * 10
Quarter == Mm \div 4

(* argparse defaults *)
DefaultPlateDiameter == 11 * Mm
DefaultCylinderDiameter == 4 * Mm
DefaultCylinderHeight == 10 * Mm
DefaultPlateThickness == 1 * Mm
DefaultHoleDiameter == 1 * Mm
(* text_height = 0.8 *)
text_height == (8 * Mm) \div 10

PlateDiameters ==
  {0 - 6 * Quarter, 0 - Mm, 0}
    \cup {DefaultPlateDiameter + Quarter * k : k \in 0..PlateSpan}
CylinderDiameters ==
  {0, 12 * Mm} \cup {DefaultCylinderDiameter + Quarter * k : k \in 0..CylSpan}
PlateThicknesses ==
  {0 - Mm, DefaultPlateThickness} \cup {Quarter * k : k \in 0..ThickSpan}
CylinderHeights == {0 - Mm, 0, DefaultCylinderHeight}
HoleDiameters == {0 - Mm, 0, DefaultHoleDiameter, 6 * Mm}

(* --------------------------- arithmetic -------------------------------- *)
Abs(n) == IF n < 0 THEN 0 - n ELSE n
Min(a, b) == IF a <= b THEN a ELSE b
Max(a, b) == IF a >= b THEN a ELSE b

(* int(x) replaced by rounding to the nearest integer. *)
IntPartRounded(x) ==
  IF x >= 0 THEN (x + Mm \div 2) \div Mm ELSE 0 - ((Mm \div 2 - x) \div Mm)

(* Python int(x): truncation toward zero, x given in 1/80 mm. *)
IntPart(x) == IF x >= 0 THEN x \div Mm ELSE 0 - ((0 - x) \div Mm)

(* x == int(x) *)
IsWhole(x) == IntPart(x) * Mm = x

(* ---------------------------- strings ---------------------------------- *)
(* A string is a sequence of one-character strings. *)
DigitChar(d) ==
  CASE d = 0 -> "0" [] d = 1 -> "1" [] d = 2 -> "2" [] d = 3 -> "3"
    [] d = 4 -> "4" [] d = 5 -> "5" [] d = 6 -> "6" [] d = 7 -> "7"
    [] d = 8 -> "8" [] d = 9 -> "9"

RECURSIVE NatStr(_)
NatStr(n) == IF n < 10 THEN <<DigitChar(n)>>
             ELSE NatStr(n \div 10) \o <<DigitChar(n % 10)>>

(* str(n) / format of an integer n *)
IntStr(n) == IF n < 0 THEN <<"-">> \o NatStr(0 - n) ELSE NatStr(n)

(* f"{x:.0f}" of a whole float x of sign bit neg: the sign the float       *)
(* carries (-0.0 gives -0), then the digits of its magnitude.              *)
Format0f(x, neg) ==
  (IF neg THEN <<"-">> ELSE <<>>) \o NatStr(Abs(x) \div Mm)

(* f"{x:.1f}": x rounded to tenths, ties to even (x is exact) *)
RoundTenths(a) ==
  LET q == (a * 10) \div Mm
      r == (a * 10) % Mm
  IN  IF 2 * r < Mm THEN q
      ELSE IF 2 * r > Mm THEN q + 1
      ELSE IF q % 2 = 0 THEN q ELSE q + 1

Format1f(x, neg) ==
  LET t == RoundTenths(Abs(x))
  IN  (IF neg THEN <<"-">> ELSE <<>>)
        \o NatStr(t \div 10) \o <<".">> \o <<DigitChar(t % 10)>>

(* ------------------------ resolved parameters -------------------------- *)
plate_diameter == args.plate_diameter
(* the sign bit of the float plate_diameter *)
plate_diameter_signbit == args.plate_diameter_signbit
plate_radius == plate_diameter \div 2
plate_thickness == args.plate_thickness
cylinder_diameter == args.cylinder_diameter
cylinder_radius == cylinder_diameter \div 2
cylinder_height == args.cylinder_height
hole_diameter == args.hole_diameter
hole_radius == hole_diameter \div 2

(* (plate_radius - cylinder_radius) * 0.6 *)
font_size == ((plate_radius - cylinder_radius) * 6) \div 10
(* (cylinder_radius + plate_radius) / 2 *)
text_offset_y == (cylinder_radius + plate_radius) \div 2

(* The text always formatted with one decimal place. *)
TextStrOneDecimal(d, neg) == Format1f(d, neg)

(* f"{d:.0f}" if d == int(d) else f"{d:.1f}" *)
TextStr(d, neg) ==
  IF IsWhole(d) THEN Format0f(d, neg) ELSE Format1f(d, neg)

(* ------------------------------ solid ---------------------------------- *)
(* A kernel operation: a sketch (Circle of radius size, or Text of font    *)
(* size size, centred at y = at) on the plane z = plane, extruded by       *)
(* amount in the given mode.                                               *)
Op(sketch, size, at, plane, amount, mode) ==
  [sketch |-> sketch, size |-> size, at |-> at, plane |-> plane,
   amount |-> amount, mode |-> mode]

HalfExtent(op) == IF op.sketch = "Circle" THEN op.size ELSE op.size \div 2

(* A sketch of non-positive size, or an extrusion by 0: nothing in the     *)
(* source says what the kernel returns for one.                            *)
Degenerate(op) == op.size <= 0 \/ op.amount = 0

(* The region a sketch of positive size sweeps, in the cross-section       *)
(* x = 0. A negative amount extrudes below the sketch plane.               *)
Box(op) ==
  [ylo |-> op.at - HalfExtent(op), yhi |-> op.at + HalfExtent(op),
   zlo |-> Min(op.plane, op.plane + op.amount),
   zhi |-> Max(op.plane, op.plane + op.amount)]

Covers(b, c) ==
  /\ b.ylo <= c.y /\ c.y + 1 <= b.yhi
  /\ b.zlo <= c.z /\ c.z + 1 <= b.zhi

(* The cylinder sketched on the base plane instead of the plate's top. *)
CylinderOpOnBasePlane ==
  Op("Circle", cylinder_radius, 0, 0, cylinder_height, "ADD")

(* The hole cut over the cylinder's height only. *)
HoleOpCylinderOnly ==
  Op("Circle", hole_radius, 0, 0, cylinder_height, "SUBTRACT")

PlateOp == Op("Circle", plate_radius, 0, 0, plate_thickness, "ADD")
CylinderOp ==
  Op("Circle", cylinder_radius, 0, plate_thickness, cylinder_height, "ADD")
HoleOp ==
  Op("Circle", hole_radius, 0, 0, plate_thickness + cylinder_height, "SUBTRACT")
TextOp == Op("Text", font_size, text_offset_y, 0, text_height, "SUBTRACT")

(* Sample cells: the unit cells on either side of every breakpoint. *)
Around(S) == S \cup {b - 1 : b \in S}
YBreaks ==
  {0, plate_radius, 0 - plate_radius, cylinder_radius, 0 - cylinder_radius,
   hole_radius, 0 - hole_radius, Box(TextOp).ylo, Box(TextOp).yhi}
ZBreaks == {0, plate_thickness, plate_thickness + cylinder_height, text_height}
Cells == [y : Around(YBreaks), z : Around(ZBreaks)]

(* The volume recorded for an operation: none for a degenerate one. *)
Swept(op) ==
  IF Degenerate(op) THEN {} ELSE {c \in Cells : Covers(Box(op), c)}

(* extrude(..., mode): fuse into, or cut from, the solid built so far. *)
Apply(solid, op) ==
  IF op.mode = "ADD" THEN solid \cup Swept(op) ELSE solid \ Swept(op)

(* ------------------------------ state ---------------------------------- *)
Init ==
  /\ args \in {a \in [plate_diameter : PlateDiameters,
                        plate_diameter_signbit : BOOLEAN,
                        cylinder_diameter : CylinderDiameters,
                        cylinder_height : CylinderHeights,
                        plate_thickness : PlateThicknesses,
                        hole_diameter : HoleDiameters,
                        no_export : BOOLEAN] :
                 a.plate_diameter # 0 =>
                   (a.plate_diameter_signbit <=> a.plate_diameter < 0)}
  /\ SHOW_AVAILABLE \in BOOLEAN
  /\ stdout_encodes \in BOOLEAN
  /\ pc = "plate"
  /\ part = {}
  /\ ops = <<>>
  /\ text_str = <<>>
  /\ out = <<>>
  /\ attempts = <<>>
  /\ files = {}
  /\ hole_line_solid = FALSE
  /\ exit_status = "running"
  /\ traceback = "none"

(* A build error swallowed: the script carries on after the build block. *)
UncaughtSwallowed ==
  /\ pc' = "display"
  /\ UNCHANGED <<exit_status, traceback>>

(* An exception nobody catches: the interpreter prints a traceback on      *)
(* stderr, naming the step that raised, and exits with a non-zero status.  *)
Uncaught ==
  /\ pc' = "done"
  /\ exit_status' = "failure"
  /\ traceback' = pc

(* One sketch + extrude inside the BuildPart block; the kernel may raise.  *)
Extrude(op, next) ==
  \E raised \in BOOLEAN :
    IF raised
      THEN Uncaught /\ UNCHANGED <<part, ops>>
      ELSE /\ part' = Apply(part, op)
           /\ ops' = Append(ops, op)
           /\ pc' = next
           /\ UNCHANGED <<exit_status, traceback>>

BuildPlate ==
  /\ pc = "plate"
  /\ Extrude(PlateOp, "cylinder")
  /\ UNCHANGED <<env, text_str, out, attempts, files, hole_line_solid>>

BuildCylinder ==
  /\ pc = "cylinder"
  /\ Extrude(CylinderOp, "hole")
  /\ UNCHANGED <<env, text_str, out, attempts, files, hole_line_solid>>

(* if hole_diameter > 0 *)
HoleRequested == hole_diameter > 0

BuildHole ==
  /\ pc = "hole"
  /\ IF HoleRequested
       THEN Extrude(HoleOp, "text")
       ELSE pc' = "text" /\ UNCHANGED <<part, ops, exit_status, traceback>>
  /\ UNCHANGED <<env, text_str, out, attempts, files, hole_line_solid>>

(* The text step. BuildSketch on line 95 may raise before text_str is     *)
(* bound on line 96; Text and extrude may raise after it.                 *)
EngraveText ==
  /\ pc = "text"
  /\ \E raised \in {"sketch", "text", "no"} :
       /\ text_str' = IF raised = "sketch" THEN text_str
                      ELSE TextStr(plate_diameter,
                                   plate_diameter_signbit)
       /\ IF raised # "no"
            THEN Uncaught /\ UNCHANGED <<part, ops>>
            ELSE /\ part' = Apply(part, TextOp)
                 /\ ops' = Append(ops, TextOp)
                 /\ pc' = "part"
                 /\ UNCHANGED <<exit_status, traceback>>
  /\ UNCHANGED <<env, out, attempts, files, hole_line_solid>>

(* Leaving the BuildPart block and reading its .part, line 102: kernel    *)
(* calls too, which may raise.                                            *)
ObtainPart ==
  /\ pc = "part"
  /\ \E raised \in BOOLEAN :
       IF raised THEN Uncaught
       ELSE pc' = "display" /\ UNCHANGED <<exit_status, traceback>>
  /\ UNCHANGED <<env, part, ops, text_str, out, attempts, files,
                 hole_line_solid>>

(* No accepted operation was degenerate: part is the kernel's solid. *)
Determined == \A i \in DOMAIN ops : ~Degenerate(ops[i])

(* part is bound: every operation was applied and line 102 was passed. *)
PartBuilt ==
  /\ Len(ops) > 0 /\ ops[Len(ops)].sketch = "Text"
  /\ pc # "part" /\ traceback # "part"

Line(msg, what) == [msg |-> msg, what |-> what]

(* With ocp_vscode: show(part), which may raise, then a line that starts   *)
(* with a check mark, whose print raises when stdout cannot encode it.     *)
(* Without: a plain note.                                                  *)
Display ==
  /\ pc = "display"
  /\ IF SHOW_AVAILABLE
       THEN \E show_raised \in BOOLEAN :
              IF show_raised \/ ~stdout_encodes
                THEN Uncaught /\ UNCHANGED out
                ELSE /\ out' = Append(out, Line("displayed", <<>>))
                     /\ pc' = "export"
                     /\ UNCHANGED <<exit_status, traceback>>
       ELSE /\ out' = Append(out, Line("no_viewer", <<>>))
            /\ pc' = "export"
            /\ UNCHANGED <<exit_status, traceback>>
  /\ UNCHANGED <<env, part, ops, text_str, attempts, files, hole_line_solid>>

(* if not args.no_export *)
ExportEnabled == ~args.no_export

(* f"{int(cylinder_diameter)}mmCircle-{int(plate_diameter)}mm" *)
FilenameBase(cd, pd) ==
  IntStr(IntPart(cd)) \o <<"m", "m", "C", "i", "r", "c", "l", "e", "-">>
    \o IntStr(IntPart(pd)) \o <<"m", "m">>

filename_base == FilenameBase(cylinder_diameter, plate_diameter)
stl_filename == filename_base \o <<".", "s", "t", "l">>
step_filename == filename_base \o <<".", "s", "t", "e", "p">>

(* One try/except around a writer and the print of its success line,     *)
(* which starts with a check mark. The writer raises, leaving no file; or *)
(* returns failure, leaving no file, a result the script does not read;   *)
(* or writes the file. Unless the writer raised, the success line is      *)
(* printed, which raises when stdout cannot encode the check mark.        *)
(* Whatever was raised, the handler prints the format's error line.       *)
TryExport(format, filename) ==
  \E writer \in {"raised", "failed", "written"} :
    LET raised == writer = "raised" \/ ~stdout_encodes
    IN  /\ attempts' = Append(attempts, [format |-> format,
                                         filename |-> filename,
                                         raised |-> raised])
        /\ files' = IF writer = "written" THEN files \cup {filename}
                    ELSE files
        /\ out' = Append(out, IF raised THEN Line("export_error", format)
                                         ELSE Line("exported", filename))

(* The export block up to the end of the STL try: the two imports, which  *)
(* no try surrounds, then the STL attempt.                                *)
ExportStl ==
  /\ pc = "export"
  /\ ExportEnabled
  /\ \E import_raised \in BOOLEAN :
       IF import_raised
         THEN Uncaught /\ UNCHANGED <<attempts, files, out>>
         ELSE /\ TryExport(<<"S", "T", "L">>, stl_filename)
              /\ pc' = "export_step"
              /\ UNCHANGED <<exit_status, traceback>>
  /\ UNCHANGED <<env, part, ops, text_str, hole_line_solid>>

ExportStep ==
  /\ pc = "export_step"
  /\ TryExport(<<"S", "T", "E", "P">>, step_filename)
  /\ pc' = "report"
  /\ UNCHANGED <<env, part, ops, text_str, hole_line_solid, exit_status,
                 traceback>>

SkipExport ==
  /\ pc = "export"
  /\ ~ExportEnabled
  /\ out' = Append(out, Line("export_skipped", <<>>))
  /\ pc' = "report"
  /\ UNCHANGED <<env, part, ops, text_str, attempts, files, hole_line_solid,
                 exit_status, traceback>>

(* (" (solid)" if hole_diameter == 0 else "") *)
SolidMarker == hole_diameter = 0

(* The summary, lines 144-153, then the last line, which holds a check    *)
(* mark: its print raises when stdout cannot encode it; otherwise the     *)
(* script runs off its end.                                               *)
Report ==
  /\ pc = "report"
  /\ out' = Append(out, Line("summary", <<>>))
  /\ hole_line_solid' = SolidMarker
  /\ IF stdout_encodes
       THEN pc' = "done" /\ exit_status' = "success" /\ UNCHANGED traceback
       ELSE Uncaught
  /\ UNCHANGED <<env, part, ops, text_str, attempts, files>>

Next ==
  \/ BuildPlate
  \/ BuildCylinder
  \/ BuildHole
  \/ EngraveText
  \/ ObtainPart
  \/ Display
  \/ ExportStl
  \/ ExportStep
  \/ SkipExport
  \/ Report

Spec == Init /\ [][Next]_vars

TypeOK ==
  /\ pc \in {"plate", "cylinder", "hole", "text", "part", "display",
              "export", "export_step", "report", "done"}
  /\ exit_status \in {"running", "success", "failure"}
  /\ traceback \in {"none", "plate", "cylinder", "hole", "text", "part",
                     "display", "export", "report"}
  /\ part \subseteq Cells
  /\ Len(ops) <= 4

(* ======================== properties ================================== *)
Stl == <<"S", "T", "L">>
Step == <<"S", "T", "E", "P">>
Printed(msg) == \E i \in DOMAIN out : out[i].msg = msg
PrintedLine(msg, what) == \E i \in DOMAIN out : out[i] = Line(msg, what)

(* positive heights, hole inside cylinder inside plate *)
WellFormed ==
  /\ plate_thickness > 0 /\ cylinder_height > 0
  /\ 0 <= hole_radius /\ hole_radius < cylinder_radius
  /\ cylinder_radius < plate_radius

(* The outcome of one export attempt shows in the output and on disk for  *)
(* its own format only: an error line and no file, or a success line and  *)
(* the file.                                                               *)
AttemptReported(a) ==
  IF PrintedLine("export_error", a.format)
    THEN /\ ~PrintedLine("exported", a.filename)
         /\ a.filename \notin files
    ELSE /\ PrintedLine("exported", a.filename)
         /\ a.filename \in files

(* C1: with export enabled and the part built (taken here among the      *)
(* well-formed parameter sets, once the export attempts have begun), the  *)
(* STL export and then the STEP export are each attempted whatever the    *)
(* other's outcome, a failure only prints the error of its own format,    *)
(* and the run goes on to the summary and ends with success status.       *)
C1_ExportsIndependent ==
  (ExportEnabled /\ PartBuilt /\ WellFormed /\ attempts # <<>>) =>
    /\ pc = "export_step" =>
         /\ Len(attempts) = 1
         /\ attempts[1].format = Stl
         /\ AttemptReported(attempts[1])
    /\ pc \in {"report", "done"} =>
         /\ Len(attempts) = 2
         /\ attempts[1].format = Stl
         /\ attempts[2].format = Step
         /\ AttemptReported(attempts[1])
         /\ AttemptReported(attempts[2])
    /\ pc = "done" => (Printed("summary") /\ exit_status = "success")

(* C2: with --no-export no export is ever attempted, no file is written,  *)
(* and the run (taken here among those that built a part from a           *)
(* well-formed parameter set) prints the summary before it ends.          *)
C2_NoExportStillSummary ==
  (args.no_export /\ PartBuilt /\ WellFormed) =>
    /\ attempts = <<>>
    /\ files = {}
    /\ pc = "done" => Printed("summary")

(* ---- reading strings back ---- *)
Digits == {"0", "1", "2", "3", "4", "5", "6", "7", "8", "9"}
DigitVal(ch) == CHOOSE d \in 0..9 : DigitChar(d) = ch
IsNumeral(str) == Len(str) > 0 /\ \A i \in DOMAIN str : str[i] \in Digits

RECURSIVE NumeralVal(_)
NumeralVal(str) ==
  IF Len(str) = 0 THEN 0
  ELSE 10 * NumeralVal(SubSeq(str, 1, Len(str) - 1)) + DigitVal(str[Len(str)])

IsNegative(str) == Len(str) > 0 /\ str[1] = "-"
Unsigned(str) == IF IsNegative(str) THEN Tail(str) ELSE str

(* The signed numeral a string starts with. *)
LeadingNumeral(str) ==
  LET stops == {i \in DOMAIN str : str[i] \notin Digits \cup {"-"}}
      n == IF stops = {} THEN Len(str)
           ELSE (CHOOSE i \in stops : \A j \in stops : i <= j) - 1
  IN  SubSeq(str, 1, n)

(* str is the decimal numeral of the integer part of x (x cut toward 0) *)
IsIntegerPartOf(str, x) ==
  /\ IsNumeral(Unsigned(str))
  /\ NumeralVal(Unsigned(str)) * Mm <= Abs(x)
  /\ Abs(x) < (NumeralVal(Unsigned(str)) + 1) * Mm
  /\ IsNegative(str) <=> x <= 0 - Mm

EndsWith(str, suffix) ==
  /\ Len(str) >= Len(suffix)
  /\ SubSeq(str, Len(str) - Len(suffix) + 1, Len(str)) = suffix

DropLast(str, n) == SubSeq(str, 1, Len(str) - n)

(* stem is <c>mmCircle-<p>mm, c and p the integer parts of the diameters *)
IsStemOf(stem, cd, pd) ==
  LET c == LeadingNumeral(stem)
      rest == SubSeq(stem, Len(c) + 1, Len(stem))
      sep == <<"m", "m", "C", "i", "r", "c", "l", "e", "-">>
      tail == SubSeq(rest, Len(sep) + 1, Len(rest))
      q == LeadingNumeral(tail)
  IN  /\ IsIntegerPartOf(c, cd)
      /\ SubSeq(rest, 1, Len(sep)) = sep
      /\ IsIntegerPartOf(q, pd)
      /\ SubSeq(tail, Len(q) + 1, Len(tail)) = <<"m", "m">>

DotStl == <<".", "s", "t", "l">>
DotStep == <<".", "s", "t", "e", "p">>
Default4mmCircle11mm ==
  <<"4", "m", "m", "C", "i", "r", "c", "l", "e", "-", "1", "1", "m", "m">>

(* C3: every export is attempted on a file named from the stem           *)
(* <int(cylinder_diameter)>mmCircle-<int(plate_diameter)>mm, int being    *)
(* the integer part, with suffix .stl for STL and .step for STEP, both    *)
(* from the same stem; the defaults 4.0 and 11.0 give 4mmCircle-11mm.stl  *)
(* and 4mmCircle-11mm.step.                                               *)
C3_FilenamesFromStem ==
  /\ \A i \in DOMAIN attempts :
       LET f == attempts[i].filename
           suffix == IF attempts[i].format = Stl THEN DotStl ELSE DotStep
       IN  /\ EndsWith(f, suffix)
           /\ IsStemOf(DropLast(f, Len(suffix)), cylinder_diameter,
                        plate_diameter)
           /\ (cylinder_diameter = DefaultCylinderDiameter
                  /\ plate_diameter = DefaultPlateDiameter)
                => f = Default4mmCircle11mm \o suffix
  /\ Len(attempts) = 2 =>
       DropLast(attempts[1].filename, 4) = DropLast(attempts[2].filename, 5)
  /\ \A f \in files : \E i \in DOMAIN attempts : attempts[i].filename = f

(* C3 witness: diameters 4.75 and 11.75 were exported as                  *)
(* 4mmCircle-11mm.stl and 4mmCircle-11mm.step.                            *)
C3_Witness ==
  /\ pc = "done"
  /\ cylinder_diameter = DefaultCylinderDiameter + 3 * Quarter
  /\ plate_diameter = DefaultPlateDiameter + 3 * Quarter
  /\ files = {Default4mmCircle11mm \o DotStl, Default4mmCircle11mm \o DotStep}

(* C4: the engraved text is the plate diameter as an integer with no      *)
(* decimal point when the diameter is whole (11.0 gives 11), and with     *)
(* exactly one decimal place, the nearest tenth, otherwise (11.5 gives    *)
(* 11.5), for every plate diameter; it carries the sign of the float      *)
(* (-0.0 gives -0).                                                        *)
C4_TextFormat ==
  /\ PartBuilt => text_str # <<>>
  /\ text_str # <<>> =>
    LET whole == plate_diameter % Mm = 0
        digits == Unsigned(text_str)
        dots == {i \in DOMAIN digits : digits[i] = "."}
    IN  /\ IsNegative(text_str) <=> plate_diameter_signbit
        /\ whole =>
             /\ IsNumeral(digits)
             /\ NumeralVal(digits) * Mm = Abs(plate_diameter)
        /\ ~whole =>
             /\ dots = {Len(digits) - 1}
             /\ IsNumeral(DropLast(digits, 2))
             /\ digits[Len(digits)] \in Digits
             /\ LET tenths == 10 * NumeralVal(DropLast(digits, 2))
                                 + DigitVal(digits[Len(digits)])
                 IN  Abs(tenths * Mm - 10 * Abs(plate_diameter)) * 2 <= Mm
        /\ plate_diameter = 11 * Mm => text_str = <<"1", "1">>
        /\ plate_diameter = 11 * Mm + 2 * Quarter
             => text_str = <<"1", "1", ".", "5">>
        /\ (plate_diameter = 0 /\ plate_diameter_signbit)
             => text_str = <<"-", "0">>

(* C4 witness: plate diameter 11.5 was engraved as 11.5. *)
C4_Witness ==
  /\ PartBuilt
  /\ plate_diameter = 11 * Mm + 2 * Quarter
  /\ text_str = <<"1", "1", ".", "5">>

(* ---- reading the solid ---- *)
(* The solid a construction history gives. *)
RECURSIVE SolidOf(_)
SolidOf(history) ==
  IF history = <<>> THEN {}
  ELSE Apply(SolidOf(SubSeq(history, 1, Len(history) - 1)),
             history[Len(history)])

Additive(history) == SelectSeq(history, LAMBDA op : op.mode = "ADD")

(* The height range [lo, hi] a non-empty solid occupies. *)
Occupies(solid, lo, hi) ==
  /\ \A c \in solid : lo <= c.z /\ c.z + 1 <= hi
  /\ \E c \in solid : c.z = lo
  /\ \E c \in solid : c.z + 1 = hi

StackHeight == plate_thickness + cylinder_height

(* C5: for every parameter set with positive plate thickness and         *)
(* cylinder height, cylinder_radius < plate_radius and hole_radius <      *)
(* cylinder_radius, the finished solid occupies exactly z = 0 ..          *)
(* plate_thickness + cylinder_height, as the plate and cylinder alone do: *)
(* the subtractions change no height and the engraving depth is not       *)
(* added. The solid is the one the source determines: the plate and the   *)
(* cylinder the kernel accepted are circles of positive radius.           *)
C5_TotalHeight ==
  (/\ PartBuilt /\ Determined
   /\ plate_thickness > 0 /\ cylinder_height > 0
   /\ cylinder_radius < plate_radius /\ hole_radius < cylinder_radius) =>
    /\ Occupies(part, 0, StackHeight)
    /\ Occupies(SolidOf(Additive(ops)), 0, StackHeight)
    /\ part \subseteq SolidOf(Additive(ops))

(* C5 witness: the default part, hole and engraving cut, is finished. *)
C5_Witness ==
  /\ PartBuilt /\ Determined /\ Len(ops) = 4
  /\ plate_diameter = DefaultPlateDiameter
  /\ cylinder_diameter = DefaultCylinderDiameter
  /\ plate_thickness = DefaultPlateThickness
  /\ cylinder_height = DefaultCylinderHeight
  /\ hole_diameter = DefaultHoleDiameter
  /\ Occupies(part, 0, 11 * Mm)

(* The cells within r of the axis between the heights 0 and h. *)
AxialColumn(r, h) ==
  {c \in Cells : /\ 0 - r <= c.y /\ c.y + 1 <= r
                 /\ Min(0, h) <= c.z /\ c.z + 1 <= Max(0, h)}

(* C6: the finished solid has a through-bore exactly when                 *)
(* hole_diameter > 0. Then the bore is a void of radius hole_diameter/2   *)
(* about the axis from z = 0 to z = plate_thickness + cylinder_height;    *)
(* otherwise no hole subtraction is performed and the solid is the plate  *)
(* and cylinder less the text recess only (solid along the axis when its  *)
(* dimensions are positive).                                              *)
C6_ThroughBore ==
  PartBuilt =>
    IF hole_diameter > 0
      THEN /\ Len(ops) = 4
           /\ ops[3].sketch = "Circle" /\ ops[3].mode = "SUBTRACT"
           /\ AxialColumn(hole_radius, StackHeight) \cap part = {}
      ELSE /\ Len(ops) = 3
           /\ \A i \in DOMAIN ops :
                ops[i].mode = "SUBTRACT" => ops[i].sketch = "Text"
           /\ part = SolidOf(Additive(ops)) \ Swept(TextOp)
           /\ (/\ plate_thickness > 0 /\ cylinder_height > 0
               /\ plate_radius > 0 /\ cylinder_radius > 0) =>
                AxialColumn(1, StackHeight) \subseteq part

(* C6 witness: a finished part with a bore through plate and cylinder. *)
C6_Witness ==
  /\ PartBuilt
  /\ hole_diameter = DefaultHoleDiameter
  /\ cylinder_diameter = DefaultCylinderDiameter
  /\ plate_diameter = DefaultPlateDiameter
  /\ plate_thickness = DefaultPlateThickness
  /\ cylinder_height = DefaultCylinderHeight
  /\ AxialColumn(hole_radius, StackHeight) # {}
  /\ AxialColumn(hole_radius, StackHeight) \cap part = {}
  /\ \E c \in part : c.y = hole_radius /\ c.z = 0
  /\ \E c \in part : c.y = hole_radius /\ c.z + 1 = StackHeight

BuildSteps == {"plate", "cylinder", "hole", "text", "part"}

(* C7: a geometry-construction error in a build step ends the run there   *)
(* with failure status: no later step runs, no export is attempted, no    *)
(* file is written and no summary is printed; only a built part is ever   *)
(* displayed, exported or reported.                                       *)
C7_BuildErrorFatal ==
  /\ traceback \in BuildSteps =>
       /\ pc = "done" /\ exit_status = "failure"
       /\ ~PartBuilt
       /\ traceback # "part" => Len(ops) < 4
       /\ attempts = <<>> /\ files = {} /\ out = <<>>
  /\ (pc \in {"display", "export", "export_step", "report"}
        \/ out # <<>> \/ attempts # <<>> \/ files # {}
        \/ traceback \notin BuildSteps \cup {"none"}
        \/ exit_status = "success") => PartBuilt
  /\ (pc = "done" /\ ~PartBuilt) => traceback \in BuildSteps
  /\ pc = "done" <=> exit_status # "running"

(* C7 witness: the text step failed after plate, cylinder and hole were   *)
(* built, in a run with export enabled.                                   *)
C7_Witness ==
  /\ exit_status = "failure" /\ traceback = "text"
  /\ Len(ops) = 3 /\ text_str # <<>>
  /\ ExportEnabled
  /\ part # {}

(* Material the text subtraction removed. *)
Engraved == SolidOf(SubSeq(ops, 1, Len(ops) - 1)) \cap Swept(TextOp)

(* C9: the engraving removes material from the plate only: for every      *)
(* parameter set (taken here among the well-formed ones) what it cuts     *)
(* lies between z = 0 and plate_thickness and between cylinder_radius and *)
(* plate_radius, and plate material remains above it (it does not cut     *)
(* through the top of the plate).                                         *)
C9_EngravingInPlate ==
  (PartBuilt /\ WellFormed) =>
    \A c \in Engraved :
      /\ 0 <= c.z /\ c.z + 1 <= plate_thickness
      /\ cylinder_radius <= c.y /\ c.y + 1 <= plate_radius
      /\ \E d \in part : d.y = c.y /\ d.z > c.z /\ d.z + 1 <= plate_thickness

(* C10: for every hole_diameter value (the other parameters taken        *)
(* positive, cylinder inside plate, in runs that end with success) the    *)
(* hole line of the summary carries the (solid) marker exactly when the   *)
(* hole subtraction was skipped, i.e. the finished solid has no           *)
(* through-bore.                                                           *)
C10_SummaryAgrees ==
  (/\ Printed("summary") /\ exit_status = "success"
   /\ plate_thickness > 0 /\ cylinder_height > 0
   /\ 0 < cylinder_radius /\ cylinder_radius < plate_radius) =>
    (hole_line_solid <=>
       ~\E i \in DOMAIN ops :
           ops[i].sketch = "Circle" /\ ops[i].mode = "SUBTRACT")

====
